---- MODULE Spec2Model ----
(***************************************************************************)
(* Model of scribe's buffer cursor (src/buffer/cursor.rs) and of the       *)
(* ordering of positions (src/buffer/position.rs).                         *)
(*                                                                         *)
(* The text store (GapBuffer) is the cursor's collaborator.  Its content   *)
(* is a sequence of characters; "a" stands for a one-byte character,       *)
(* "E" for a two-byte character (such as U+00E9) and "LF" for the newline. *)
(* Carriage returns are left out of the alphabet.  Lines and offsets stay   *)
(* far below usize::MAX, so line + 1 and offset + 1 do not overflow.       *)
(***************************************************************************)
EXTENDS Integers, Sequences, FiniteSets, TLC

\* Bounds of the model.
MaxLen == 3        \* characters in the store
MaxLine == 2       \* largest line number given to new and move_to
MaxOff == 2        \* largest offset given to new and move_to

LF == "LF"
Chars == {"a", "E", LF}

VARIABLES
  data,            \* Cursor.data: the content of the shared store
  position,        \* Cursor.position
  sticky_offset,   \* Cursor.sticky_offset
  op,              \* the last operation that ran
  pre,             \* the cursor's fields when that operation started
  arg,             \* the target given to it (move_to only)
  ret,             \* what move_to returned; after a mutation of the store,
                   \* whether position was in bounds before it
  a, b, c,         \* positions under comparison
  ord              \* the orderings computed for them

vars == <<data, position, sticky_offset, op, pre, arg, ret, a, b, c, ord>>

Position(line, offset) == [line |-> line, offset |-> offset]

Positions == {Position(l, o) : l \in 0..MaxLine, o \in 0..MaxOff}

RECURSIVE SeqsUpTo(_)
SeqsUpTo(n) ==
  IF n = 0 THEN {<<>>}
  ELSE LET shorter == SeqsUpTo(n - 1)
       IN shorter \cup {Append(s, ch) : s \in {t \in shorter : Len(t) = n - 1}, ch \in Chars}

Contents == SeqsUpTo(MaxLen)

----------------------------------------------------------------------------
\* The text store's query surface.

\* The content cut at every newline; a trailing newline leaves an empty last
\* segment, and the empty content is one empty segment.
RECURSIVE segments(_)
segments(s) ==
  IF s = <<>> THEN << <<>> >>
  ELSE LET rest == segments(Tail(s))
       IN IF Head(s) = LF THEN << <<>> >> \o rest
          ELSE << <<Head(s)>> \o Head(rest) >> \o Tail(rest)

\* GapBuffer::in_bounds: the position addresses a character slot, or the slot
\* at the end of the content.  Offsets count characters.
in_bounds(d, p) ==
  LET segs == segments(d)
  IN /\ p.line < Len(segs)
     /\ p.offset <= Len(segs[p.line + 1])

\* str::lines: the segments, without the empty one after a trailing newline.
lines(s) ==
  LET segs == segments(s)
  IN IF segs[Len(segs)] = <<>> THEN SubSeq(segs, 1, Len(segs) - 1) ELSE segs

\* The UTF-8 width of a character.
len_utf8(ch) == IF ch = "E" THEN 2 ELSE 1

\* str::len: the length of a line in bytes.
RECURSIVE len(_)
len(line) == IF line = <<>> THEN 0 ELSE len_utf8(Head(line)) + len(Tail(line))

----------------------------------------------------------------------------
\* The cursor.  An operation maps the cursor's fields and the store's content
\* to the new fields; ret is move_to's result.

Cursor(p, sticky) == [position |-> p, sticky_offset |-> sticky]

\* Variant of new: the sticky offset starts at 0.
new_zero_sticky(line, offset) == Cursor(Position(line, offset), 0)

new(line, offset) == Cursor(Position(line, offset), offset)

\* Variants of move_to, each with one slip.
\* The sticky offset is assigned before the bounds check.
move_to_sticky_always(cur, d, target) ==
  IF in_bounds(d, target)
  THEN [cursor |-> Cursor(target, target.offset), ret |-> TRUE]
  ELSE [cursor |-> [cur EXCEPT !.sticky_offset = target.offset], ret |-> FALSE]

\* The sticky offset is not assigned.
move_to_keeps_sticky(cur, d, target) ==
  IF in_bounds(d, target)
  THEN [cursor |-> Cursor(target, cur.sticky_offset), ret |-> TRUE]
  ELSE [cursor |-> cur, ret |-> FALSE]

\* The sticky offset is taken from the position before it is replaced.
move_to_stale_sticky(cur, d, target) ==
  IF in_bounds(d, target)
  THEN [cursor |-> Cursor(target, cur.position.offset), ret |-> TRUE]
  ELSE [cursor |-> cur, ret |-> FALSE]

\* The position the cursor already holds is accepted without asking the store.
move_to_trusts_current(cur, d, target) ==
  IF target = cur.position \/ in_bounds(d, target)
  THEN [cursor |-> Cursor(target, target.offset), ret |-> TRUE]
  ELSE [cursor |-> cur, ret |-> FALSE]

move_to(cur, d, target) ==
  IF in_bounds(d, target)
  THEN [cursor |-> Cursor(target, target.offset), ret |-> TRUE]
  ELSE [cursor |-> cur, ret |-> FALSE]

\* The loop of move_up and move_down: the byte length of target_line, 0 when
\* the enumeration of lines has no such line.
fallback_offset(d, target_line) ==
  LET ls == lines(d)
  IN IF target_line < Len(ls) THEN len(ls[target_line + 1]) ELSE 0

\* Variant of move_vertical: the sticky offset is not restored after the fallback.
move_vertical_no_restore(cur, d, target_line) ==
  LET new_position == Position(target_line, cur.sticky_offset)
      first == move_to(cur, d, new_position)
  IN IF first.ret = FALSE
     THEN move_to(first.cursor, d,
                  Position(target_line, fallback_offset(d, target_line))).cursor
     ELSE first.cursor

\* Variant of move_vertical: the fallback is skipped when the enumeration of
\* lines has no target_line.
move_vertical_skips_missing_line(cur, d, target_line) ==
  LET new_position == Position(target_line, cur.sticky_offset)
      first == move_to(cur, d, new_position)
  IN IF first.ret = FALSE
     THEN IF target_line < Len(lines(d))
          THEN [move_to(first.cursor, d,
                        Position(target_line, fallback_offset(d, target_line))).cursor
                  EXCEPT !.sticky_offset = new_position.offset]
          ELSE first.cursor
     ELSE first.cursor

\* The body shared by move_up and move_down once target_line is known.
move_vertical(cur, d, target_line) ==
  LET new_position == Position(target_line, cur.sticky_offset)
      first == move_to(cur, d, new_position)
  IN IF first.ret = FALSE
     THEN LET second == move_to(first.cursor, d,
                                Position(target_line, fallback_offset(d, target_line)))
          IN [second.cursor EXCEPT !.sticky_offset = new_position.offset]
     ELSE first.cursor

move_up(cur, d) ==
  IF cur.position.line = 0 THEN cur
  ELSE move_vertical(cur, d, cur.position.line - 1)

\* Variant of move_down: after the fallback the sticky offset is set to the
\* offset the cursor ended at.
move_down_resets_sticky(cur, d) ==
  LET moved == move_vertical(cur, d, cur.position.line + 1)
  IN IF in_bounds(d, Position(cur.position.line + 1, cur.sticky_offset))
     THEN moved
     ELSE [moved EXCEPT !.sticky_offset = moved.position.offset]

\* Variant of move_down: it aims at the offset the cursor is at, not at the
\* sticky offset.
move_down_from_offset(cur, d) ==
  move_vertical([cur EXCEPT !.sticky_offset = cur.position.offset], d,
                cur.position.line + 1)

move_down(cur, d) == move_vertical(cur, d, cur.position.line + 1)

\* Variant of move_left: no guard, the offset is decremented saturating at 0.
move_left_saturating(cur, d) ==
  move_to(cur, d, Position(cur.position.line,
                           IF cur.position.offset = 0 THEN 0
                           ELSE cur.position.offset - 1)).cursor

\* Variant of move_left: at offset 0 the cursor goes back to the end of the
\* line above.
move_left_wraps(cur, d) ==
  IF cur.position.offset = 0
  THEN IF cur.position.line = 0 THEN cur
       ELSE move_to(cur, d, Position(cur.position.line - 1,
                                     fallback_offset(d, cur.position.line - 1))).cursor
  ELSE move_to(cur, d, Position(cur.position.line, cur.position.offset - 1)).cursor

move_left(cur, d) ==
  IF cur.position.offset = 0 THEN cur
  ELSE move_to(cur, d, Position(cur.position.line, cur.position.offset - 1)).cursor

\* Variant of move_right: the position is advanced but the sticky offset is
\* left as it was.
move_right_keeps_sticky(cur, d) ==
  IF in_bounds(d, Position(cur.position.line, cur.position.offset + 1))
  THEN [cur EXCEPT !.position.offset = cur.position.offset + 1]
  ELSE cur

\* Variant of move_right: at the end of a line the cursor goes on to the
\* start of the next line.
move_right_wraps(cur, d) ==
  LET right == move_to(cur, d, Position(cur.position.line, cur.position.offset + 1))
  IN IF right.ret THEN right.cursor
     ELSE move_to(cur, d, Position(cur.position.line + 1, 0)).cursor

move_right(cur, d) ==
  move_to(cur, d, Position(cur.position.line, cur.position.offset + 1)).cursor

\* Variant of move_to_start_of_line: the offset is assigned without move_to.
move_to_start_of_line_unchecked(cur, d) ==
  [cur EXCEPT !.position.offset = 0]

move_to_start_of_line(cur, d) ==
  move_to(cur, d, Position(cur.position.line, 0)).cursor

\* Variant of move_to_end_of_line: the position is assigned without move_to.
move_to_end_of_line_unchecked(cur, d) ==
  LET ls == lines(d)
  IN IF cur.position.line < Len(ls)
     THEN Cursor(Position(cur.position.line, len(ls[cur.position.line + 1])),
                 len(ls[cur.position.line + 1]))
     ELSE cur

\* Variant of move_to_end_of_line: a line the store does not enumerate counts
\* as an empty line.
move_to_end_of_line_default_zero(cur, d) ==
  LET ls == lines(d)
  IN move_to(cur, d, Position(cur.position.line,
                              IF cur.position.line < Len(ls)
                              THEN len(ls[cur.position.line + 1]) ELSE 0)).cursor

move_to_end_of_line(cur, d) ==
  LET ls == lines(d)
  IN IF cur.position.line < Len(ls)
     THEN move_to(cur, d, Position(cur.position.line,
                                   len(ls[cur.position.line + 1]))).cursor
     ELSE cur

----------------------------------------------------------------------------
\* Position's ordering.

\* Variant of partial_cmp: the offsets are compared before the lines.
partial_cmp_offset_first(self, other) ==
  IF self.offset < other.offset THEN "Less"
  ELSE IF self.offset > other.offset THEN "Greater"
  ELSE IF self.line < other.line THEN "Less"
  ELSE IF self.line > other.line THEN "Greater"
  ELSE "Equal"

partial_cmp(self, other) ==
  IF self.line < other.line THEN "Less"
  ELSE IF self.line > other.line THEN "Greater"
  ELSE IF self.offset < other.offset THEN "Less"
  ELSE IF self.offset > other.offset THEN "Greater"
  ELSE "Equal"

\* derive(PartialEq)
eq(self, other) == self.line = other.line /\ self.offset = other.offset

\* The comparison operators PartialOrd derives from partial_cmp.
lt(self, other) == partial_cmp(self, other) = "Less"
le(self, other) == partial_cmp(self, other) \in {"Less", "Equal"}
gt(self, other) == partial_cmp(self, other) = "Greater"
ge(self, other) == partial_cmp(self, other) \in {"Greater", "Equal"}

----------------------------------------------------------------------------
\* The state machine: a cursor on a shared store that other holders mutate.

current == Cursor(position, sticky_offset)

NoPosition == Position(0, 0)
NoOrd == [ab |-> "Equal", ba |-> "Equal", bc |-> "Equal", ac |-> "Equal"]

CmpIdle == a = NoPosition /\ b = NoPosition /\ c = NoPosition /\ ord = NoOrd

Init ==
  /\ data \in Contents
  /\ \E l \in 0..MaxLine, o \in 0..MaxOff :
       /\ position = new(l, o).position
       /\ sticky_offset = new(l, o).sticky_offset
  /\ op = "new"
  /\ pre = current
  /\ arg = NoPosition
  /\ ret = FALSE
  /\ CmpIdle

\* A cursor operation other than move_to: it runs to completion on the
\* content as it is now.
Step(name, result) ==
  /\ position' = result.position
  /\ sticky_offset' = result.sticky_offset
  /\ op' = name
  /\ pre' = current
  /\ arg' = NoPosition
  /\ ret' = FALSE
  /\ UNCHANGED <<data, a, b, c, ord>>

MoveTo ==
  \E target \in Positions :
    LET r == move_to(current, data, target)
    IN /\ position' = r.cursor.position
       /\ sticky_offset' = r.cursor.sticky_offset
       /\ op' = "move_to"
       /\ pre' = current
       /\ arg' = target
       /\ ret' = r.ret
       /\ UNCHANGED <<data, a, b, c, ord>>

MoveUp == Step("move_up", move_up(current, data))
MoveDown == Step("move_down", move_down(current, data))
MoveLeft == Step("move_left", move_left(current, data))
MoveRight == Step("move_right", move_right(current, data))
MoveToStartOfLine == Step("move_to_start_of_line", move_to_start_of_line(current, data))
MoveToEndOfLine == Step("move_to_end_of_line", move_to_end_of_line(current, data))

\* Another holder of the store inserts or deletes one character.
Mutated(d) ==
  {SubSeq(d, 1, i) \o <<ch>> \o SubSeq(d, i + 1, Len(d)) :
     i \in 0..Len(d), ch \in IF Len(d) < MaxLen THEN Chars ELSE {}}
  \cup {SubSeq(d, 1, i - 1) \o SubSeq(d, i + 1, Len(d)) : i \in 1..Len(d)}

Mutate ==
  /\ data' \in Mutated(data)
  /\ op' = "mutate"
  /\ pre' = current
  /\ arg' = NoPosition
  /\ ret' = in_bounds(data, position)
  /\ UNCHANGED <<position, sticky_offset, a, b, c, ord>>

Next ==
  \/ MoveTo
  \/ MoveUp
  \/ MoveDown
  \/ MoveLeft
  \/ MoveRight
  \/ MoveToStartOfLine
  \/ MoveToEndOfLine
  \/ Mutate

Spec == Init /\ [][Next]_vars

----------------------------------------------------------------------------
\* Comparing positions: three positions are drawn and compared pairwise.

InitCmp ==
  /\ data = <<>>
  /\ position = NoPosition
  /\ sticky_offset = 0
  /\ op = "new"
  /\ pre = current
  /\ arg = NoPosition
  /\ ret = FALSE
  /\ a \in Positions
  /\ b \in Positions
  /\ c \in Positions
  /\ ord = NoOrd

Compare ==
  /\ ord' = [ab |-> partial_cmp(a, b), ba |-> partial_cmp(b, a),
             bc |-> partial_cmp(b, c), ac |-> partial_cmp(a, c)]
  /\ op' = "compare"
  /\ UNCHANGED <<data, position, sticky_offset, pre, arg, ret, a, b, c>>

NextCmp == Compare

SpecCmp == InitCmp /\ [][NextCmp]_vars

----------------------------------------------------------------------------
\* Vocabulary of the properties.

CursorOps == {"move_to", "move_up", "move_down", "move_left", "move_right",
              "move_to_start_of_line", "move_to_end_of_line"}

\* The cursor's fields are what they were when the last operation started.
StateUnchanged ==
  /\ position = pre.position
  /\ sticky_offset = pre.sticky_offset

\* The number of characters of line n of the content d.
CharCount(d, n) == Len(segments(d)[n + 1])

\* The last operation was a vertical move that did try another line.
VerticalMove ==
  \/ op = "move_up" /\ pre.position.line > 0
  \/ op = "move_down"

\* The line that move tried.
TargetLine ==
  IF op = "move_up" THEN pre.position.line - 1 ELSE pre.position.line + 1

----------------------------------------------------------------------------
\* C1: move_to with a target that in_bounds rejects returns false and leaves
\* position.line, position.offset and sticky_offset as they were.
C1_RejectedMoveToChangesNothing ==
  (op = "move_to" /\ ~in_bounds(data, arg)) => (ret = FALSE /\ StateUnchanged)

\* A rejected move_to on a cursor whose sticky offset differs from its offset
\* and from the target's.
C1_Witness ==
  /\ op = "move_to"
  /\ ~in_bounds(data, arg)
  /\ ret = FALSE
  /\ pre.sticky_offset # pre.position.offset
  /\ pre.sticky_offset # arg.offset

\* C2: move_to with a target in bounds returns true and adopts it: position is
\* the target and sticky_offset its offset, whatever sticky_offset was; a
\* move_down or move_up from there aims at the target's offset.
C2_AcceptedMoveToAdoptsTarget ==
  (op = "move_to" /\ in_bounds(data, arg)) =>
    /\ ret = TRUE
    /\ position = arg
    /\ sticky_offset = arg.offset
    /\ LET down == move_down(current, data)
           below == Position(arg.line + 1, arg.offset)
       IN /\ down.sticky_offset = arg.offset
          /\ in_bounds(data, below) => down.position = below
    /\ arg.line > 0 =>
         LET up == move_up(current, data)
             above == Position(arg.line - 1, arg.offset)
         IN /\ up.sticky_offset = arg.offset
            /\ in_bounds(data, above) => up.position = above

\* An accepted move_to that replaced a different sticky offset, with a line
\* below that has the target's offset.
C2_Witness ==
  /\ op = "move_to"
  /\ ret = TRUE
  /\ in_bounds(data, arg)
  /\ pre.sticky_offset # arg.offset
  /\ pre.sticky_offset # pre.position.offset
  /\ in_bounds(data, Position(arg.line + 1, arg.offset))

\* C3: a vertical move whose target line exists and has fewer characters than
\* sticky_offset ends at (target line, number of characters of that line).
C3_VerticalMoveSnapsToEndOfLine ==
  (/\ VerticalMove
   /\ TargetLine < Len(lines(data))
   /\ CharCount(data, TargetLine) < pre.sticky_offset)
  => position = Position(TargetLine, CharCount(data, TargetLine))

\* The last vertical move ended at the end of a line shorter than the sticky
\* offset it started with.
Clamped ==
  /\ VerticalMove
  /\ TargetLine < Len(segments(data))
  /\ CharCount(data, TargetLine) < pre.sticky_offset
  /\ position = Position(TargetLine, CharCount(data, TargetLine))

\* The line after the clamped one, in the direction of the move.
NextLine == IF op = "move_up" THEN position.line - 1 ELSE position.line + 1

\* C4: a clamped vertical move keeps sticky_offset, and the next move in the
\* same direction onto a line with at least that many characters ends at that
\* offset.
C4_StickyOffsetSurvivesClamp ==
  Clamped =>
    /\ sticky_offset = pre.sticky_offset
    /\ (/\ NextLine >= 0
        /\ NextLine < Len(segments(data))
        /\ CharCount(data, NextLine) >= pre.sticky_offset)
       => LET again == IF op = "move_up" THEN move_up(current, data)
                       ELSE move_down(current, data)
          IN again.position = Position(NextLine, pre.sticky_offset)

\* A clamped move_up with a line above that is long enough for the sticky
\* offset.
C4_Witness ==
  /\ Clamped
  /\ op = "move_up"
  /\ position.offset < sticky_offset
  /\ NextLine >= 0
  /\ CharCount(data, NextLine) >= pre.sticky_offset

\* C5: move_up on line 0 and move_left at offset 0 change nothing.
C5_NoOpAtTopAndLeftEdge ==
  /\ (op = "move_up" /\ pre.position.line = 0) => StateUnchanged
  /\ (op = "move_left" /\ pre.position.offset = 0) => StateUnchanged

\* A move_left at offset 0 of a line whose start is in bounds, with a sticky
\* offset other than 0.
C5_Witness ==
  /\ op = "move_left"
  /\ pre.position.offset = 0
  /\ pre.sticky_offset # 0
  /\ in_bounds(data, pre.position)

\* C6: move_to_end_of_line on a line the store has leaves the cursor on that
\* line, at the offset that is the number of characters of the line.
C6_EndOfLineIsCharacterCount ==
  (op = "move_to_end_of_line" /\ pre.position.line < Len(lines(data))) =>
    position = Position(pre.position.line, CharCount(data, pre.position.line))

\* C7: move_to_start_of_line ends at (line, 0) with sticky_offset 0 when that
\* is in bounds, changes nothing otherwise, and never changes the line.
C7_StartOfLine ==
  op = "move_to_start_of_line" =>
    /\ position.line = pre.position.line
    /\ IF in_bounds(data, Position(pre.position.line, 0))
       THEN position.offset = 0 /\ sticky_offset = 0
       ELSE StateUnchanged

\* A move_to_start_of_line that moved the cursor and reset a sticky offset
\* that differed from the offset.
C7_Witness ==
  /\ op = "move_to_start_of_line"
  /\ pre.position.offset > 0
  /\ pre.sticky_offset > pre.position.offset
  /\ position.offset = 0

\* The same operation on a line the store does not have.
C7_WitnessRejected ==
  /\ op = "move_to_start_of_line"
  /\ ~in_bounds(data, Position(pre.position.line, 0))

----------------------------------------------------------------------------
\* The lexicographic order on (line, offset).
LexLess(p, q) == p.line < q.line \/ (p.line = q.line /\ p.offset < q.offset)

\* C8: the comparison of positions is the lexicographic total order on
\* (line, offset): a < b exactly when LexLess, Equal and == exactly when both
\* fields agree, the five operators are consistent with one another,
\* antisymmetric and transitive, and a smaller line compares as earlier
\* whatever the offsets.
C8_PositionOrderIsLexicographic ==
  op = "compare" =>
    /\ (ord.ab = "Less") <=> LexLess(a, b)
    /\ (ord.ab = "Greater") <=> LexLess(b, a)
    /\ (ord.ab = "Equal") <=> (a.line = b.line /\ a.offset = b.offset)
    /\ (ord.ab = "Equal") <=> eq(a, b)
    /\ lt(a, b) <=> LexLess(a, b)
    /\ lt(a, b) <=> gt(b, a)
    /\ le(a, b) <=> (lt(a, b) \/ eq(a, b))
    /\ ge(a, b) <=> (gt(a, b) \/ eq(a, b))
    /\ le(a, b) <=> ~gt(a, b)
    /\ (ord.ab = "Less") <=> (ord.ba = "Greater")
    /\ (le(a, b) /\ le(b, a)) => eq(a, b)
    /\ (ord.ab = "Less" /\ ord.bc = "Less") => ord.ac = "Less"
    /\ (le(a, b) /\ le(b, c)) => le(a, c)
    /\ a.line < b.line => ord.ab = "Less"

\* Compared positions where the earlier one has the smaller line and the
\* larger offset, and a third one later on the same line.
C8_Witness ==
  /\ op = "compare"
  /\ a.line < b.line
  /\ a.offset > b.offset
  /\ b.line = c.line
  /\ b.offset < c.offset
  /\ ord.ab = "Less"

\* C9: move_to repeated with the same target on the same content returns what
\* it returned and leaves the cursor as the first call left it; a move_right
\* that was rejected is rejected again and changes nothing.
C9_MoveToIdempotent ==
  [][/\ (op = "move_to" /\ op' = "move_to" /\ arg' = arg) =>
          (ret' = ret /\ position' = position /\ sticky_offset' = sticky_offset)
     /\ (op = "move_right" /\ StateUnchanged /\ op' = "move_right") =>
          (position' = position /\ sticky_offset' = sticky_offset)]_vars

\* An accepted move_to to the position and sticky offset the cursor already
\* had, as the second of two equal calls finds it.
C9_Witness ==
  /\ op = "move_to"
  /\ ret = TRUE
  /\ pre.position = arg
  /\ pre.sticky_offset = arg.offset
  /\ arg.offset > 0
  /\ StateUnchanged

\* C10: every cursor operation that changes position sets it to a position
\* that is in bounds for the content of the store at that step.
C10_PositionChangesPassBoundsCheck ==
  (op \in CursorOps /\ position # pre.position) => in_bounds(data, position)

\* A vertical move that took a cursor whose position was out of bounds (the
\* store shrank, or it was constructed there) to the end of another line.
C10_Witness ==
  /\ op \in {"move_up", "move_down"}
  /\ ~in_bounds(data, pre.position)
  /\ position # pre.position
  /\ position.offset # pre.sticky_offset

----------------------------------------------------------------------------
\* The last operation moved the cursor through a move_to that was accepted at
\* the first attempt.
DirectSuccess ==
  \/ op = "move_to" /\ ret = TRUE
  \/ /\ op = "move_left"
     /\ pre.position.offset > 0
     /\ in_bounds(data, Position(pre.position.line, pre.position.offset - 1))
  \/ /\ op = "move_right"
     /\ in_bounds(data, Position(pre.position.line, pre.position.offset + 1))
  \/ /\ op = "move_to_start_of_line"
     /\ in_bounds(data, Position(pre.position.line, 0))
  \/ /\ op = "move_to_end_of_line"
     /\ pre.position.line < Len(lines(data))
     /\ in_bounds(data, Position(pre.position.line,
                                 len(lines(data)[pre.position.line + 1])))
  \/ /\ VerticalMove
     /\ in_bounds(data, Position(TargetLine, pre.sticky_offset))

\* The last operation was a vertical move whose first attempt was rejected
\* and whose fallback was accepted.
FallbackSuccess ==
  /\ VerticalMove
  /\ ~in_bounds(data, Position(TargetLine, pre.sticky_offset))
  /\ position.line = TargetLine

\* C11: after an operation that moved the cursor, sticky_offset is
\* position.offset, except after a vertical move that succeeded through the
\* fallback, where sticky_offset is what it was before the operation.
C11_StickyFollowsOffsetExceptFallback ==
  /\ DirectSuccess => sticky_offset = position.offset
  /\ FallbackSuccess => sticky_offset = pre.sticky_offset

\* A vertical move that succeeded through the fallback and left a sticky
\* offset larger than the offset it reached.
C11_Witness ==
  /\ FallbackSuccess
  /\ sticky_offset > position.offset
  /\ in_bounds(data, pre.position)

\* A move_right that replaced a larger sticky offset.
C11_WitnessDirect ==
  /\ op = "move_right"
  /\ DirectSuccess
  /\ pre.sticky_offset > pre.position.offset + 1

----------------------------------------------------------------------------
\* C12: every cursor operation decides on the content of the store as it is
\* when it is called.  A move_to returns what in_bounds says of the content at
\* that step; right after a mutation, a target that was in bounds and no longer
\* is is rejected, one that became in bounds is accepted; and an operation that
\* moves to the end of a line lands on the length the line has now.
C12_NoStaleness ==
  [][/\ op' = "move_to" => (ret' <=> in_bounds(data', arg'))
     /\ op' = "mutate" =>
          \A t \in Positions :
            LET was == in_bounds(data, t)
                now == in_bounds(data', t)
                r == move_to(current', data', t)
            IN was # now =>
                 IF now THEN r.ret = TRUE /\ r.cursor.position = t
                 ELSE r.ret = FALSE /\ r.cursor = current'
     /\ (/\ op' \in {"move_to_end_of_line", "move_up", "move_down"}
         /\ position' # position
         /\ sticky_offset' # position'.offset) =>
          position'.offset = CharCount(data', position'.line)
     /\ (op' = "move_to_end_of_line" /\ position' # position) =>
          position'.offset = CharCount(data', position'.line)]_vars

\* A mutation after which the position of the cursor, in bounds before it, is
\* out of bounds.
C12_Witness ==
  /\ op = "mutate"
  /\ ret = TRUE
  /\ ~in_bounds(data, position)

\* A mutation after which the position of the cursor, out of bounds before
\* it, is in bounds.
C12_WitnessBecameInBounds ==
  /\ op = "mutate"
  /\ ret = FALSE
  /\ in_bounds(data, position)

----------------------------------------------------------------------------
\* The last operation was a vertical move whose first attempt was rejected
\* and whose target line is not among the lines the store enumerates.
FallbackLookupEmpty ==
  /\ VerticalMove
  /\ ~in_bounds(data, Position(TargetLine, pre.sticky_offset))
  /\ TargetLine >= Len(lines(data))

\* C13: when the fallback line lookup of move_up/move_down yields nothing for
\* the target line, the operation does not change position.
C13_NoChangeWhenLineMissing ==
  FallbackLookupEmpty => position = pre.position

\* C13, as the code has it: the fallback then tries (target line, 0); the
\* cursor moves there when that is in bounds (the empty slot after a trailing
\* newline, or line 0 of an empty store) and position is unchanged otherwise;
\* sticky_offset keeps its value either way.
C13_FallbackTriesOffsetZero ==
  FallbackLookupEmpty =>
    /\ sticky_offset = pre.sticky_offset
    /\ IF in_bounds(data, Position(TargetLine, 0))
       THEN position = Position(TargetLine, 0)
       ELSE position = pre.position

\* A move_down from a position in bounds onto the empty slot after a trailing
\* newline, reached through the fallback.
C13_Witness ==
  /\ FallbackLookupEmpty
  /\ op = "move_down"
  /\ in_bounds(data, pre.position)
  /\ position = Position(TargetLine, 0)

\* A vertical move whose target line the store does not have at all.
C13_WitnessNoLine ==
  /\ FallbackLookupEmpty
  /\ ~in_bounds(data, Position(TargetLine, 0))
  /\ in_bounds(data, pre.position)

----------------------------------------------------------------------------
\* C14: move_down has no guard of its own.  Whenever (line + 1, sticky_offset)
\* is in bounds it moves there, wherever the cursor is; when the store has no
\* position on line + 1, both attempts are rejected and position.line,
\* position.offset and sticky_offset are unchanged.
C14_MoveDownPastLastLine ==
  op = "move_down" =>
    /\ in_bounds(data, Position(pre.position.line + 1, pre.sticky_offset)) =>
         position = Position(pre.position.line + 1, pre.sticky_offset)
    /\ pre.position.line + 1 >= Len(segments(data)) => StateUnchanged

\* A move_down from the last line of the store, from a position in bounds
\* whose offset is smaller than the sticky offset.
C14_Witness ==
  /\ op = "move_down"
  /\ in_bounds(data, pre.position)
  /\ pre.position.line + 1 = Len(segments(data))
  /\ pre.sticky_offset > pre.position.offset

----------------------------------------------------------------------------
\* C15: move_to_end_of_line changes nothing when the store enumerates no line
\* for the line the cursor is on.
C15_EndOfLineOnMissingLine ==
  (op = "move_to_end_of_line" /\ pre.position.line >= Len(lines(data))) =>
    StateUnchanged

\* A move_to_end_of_line on the empty slot after a trailing newline, with a
\* sticky offset other than 0.
C15_Witness ==
  /\ op = "move_to_end_of_line"
  /\ pre.position.line >= Len(lines(data))
  /\ in_bounds(data, pre.position)
  /\ pre.sticky_offset # 0

\* The same on a line the store lost or never had.
C15_WitnessNoLine ==
  /\ op = "move_to_end_of_line"
  /\ pre.position.line >= Len(segments(data))

\* C16: move_right tries (line, offset + 1) and nothing else: in bounds, the
\* cursor ends there with sticky_offset = offset + 1; out of bounds, nothing
\* changes.  The line never changes.
C16_MoveRight ==
  op = "move_right" =>
    /\ position.line = pre.position.line
    /\ IF in_bounds(data, Position(pre.position.line, pre.position.offset + 1))
       THEN /\ position.offset = pre.position.offset + 1
            /\ sticky_offset = pre.position.offset + 1
       ELSE StateUnchanged

\* An accepted move_right that dropped a larger sticky offset.
C16_Witness ==
  /\ op = "move_right"
  /\ position.offset = pre.position.offset + 1
  /\ pre.sticky_offset > pre.position.offset + 1

\* A move_right at the end of a line that has a line below it.
C16_WitnessEndOfLine ==
  /\ op = "move_right"
  /\ in_bounds(data, pre.position)
  /\ pre.position.offset = CharCount(data, pre.position.line)
  /\ in_bounds(data, Position(pre.position.line + 1, 0))

----------------------------------------------------------------------------
\* C17: in every reachable state position.offset <= sticky_offset.
C17_OffsetAtMostSticky ==
  position.offset <= sticky_offset

\* A cursor that a vertical move clamped to the end of a shorter line that is
\* not empty.
C17_Witness ==
  /\ VerticalMove
  /\ position # pre.position
  /\ position.offset > 0
  /\ position.offset < sticky_offset

----------------------------------------------------------------------------
\* A cursor constructed in bounds on a store that nobody mutates.

InitStatic ==
  /\ data \in Contents
  /\ \E l \in 0..MaxLine, o \in 0..MaxOff :
       /\ in_bounds(data, Position(l, o))
       /\ position = new(l, o).position
       /\ sticky_offset = new(l, o).sticky_offset
  /\ op = "new"
  /\ pre = current
  /\ arg = NoPosition
  /\ ret = FALSE
  /\ CmpIdle

NextStatic ==
  \/ MoveTo
  \/ MoveUp
  \/ MoveDown
  \/ MoveLeft
  \/ MoveRight
  \/ MoveToStartOfLine
  \/ MoveToEndOfLine

SpecStatic == InitStatic /\ [][NextStatic]_vars

\* C18: with the cursor constructed in bounds and no store mutation, after a
\* move_down that changed the line a move_up restores the position and the
\* sticky offset the cursor had before the move_down.
C18_DownThenUpRestores ==
  (op = "move_down" /\ position.line # pre.position.line) =>
    move_up(current, data) = pre

\* A move_down, from a cursor already clamped below its sticky offset, that
\* changed the line.
C18_Witness ==
  /\ op = "move_down"
  /\ position.line # pre.position.line
  /\ pre.position.offset < pre.sticky_offset

\* A move_down that changed the line and was itself clamped.
C18_WitnessClamped ==
  /\ op = "move_down"
  /\ position.line # pre.position.line
  /\ position.offset < pre.position.offset

----------------------------------------------------------------------------
\* C19: whenever the position is in bounds and position.line > 0, one move_up
\* decreases position.line by exactly one.
C19_MoveUpAlwaysProgresses ==
  (op = "move_up" /\ pre.position.line > 0 /\ in_bounds(data, pre.position)) =>
    position.line = pre.position.line - 1

\* C20: move_left, move_right, move_to_start_of_line and move_to_end_of_line
\* never change position.line; move_up changes it by 0 or -1 and move_down by
\* 0 or +1; no cursor operation changes the content of the store.
C20_LineFrame ==
  [][/\ op' \in {"move_left", "move_right", "move_to_start_of_line",
                 "move_to_end_of_line"} => position'.line = position.line
     /\ op' = "move_up" =>
          position'.line \in {position.line, position.line - 1}
     /\ op' = "move_down" =>
          position'.line \in {position.line, position.line + 1}
     /\ op' \in CursorOps => data' = data]_vars

\* A move_left at offset 0 of a line below line 0, from a position in bounds.
C20_Witness ==
  /\ op = "move_left"
  /\ pre.position.offset = 0
  /\ pre.position.line > 0
  /\ in_bounds(data, pre.position)

\* A move_down that changed the line and the offset.
C20_WitnessDown ==
  /\ op = "move_down"
  /\ position.line = pre.position.line + 1
  /\ position.offset # pre.position.offset

====
